---- MODULE Spec2Model ----
(***************************************************************************)
(* Model of picsorter (src/main.py): the PicSorter class and the           *)
(* process_folder pipeline  walk -> extract -> derive -> rename -> tally   *)
(* over an explicit file system (files, directories, read-only             *)
(* directories).                                                           *)
(*                                                                         *)
(* Representation.                                                         *)
(*   directory path : sequence of directory names, << >> is the root       *)
(*                    folder given on the command line                     *)
(*   file name      : [stem, ext], ext is Path.suffix ("" or ".xyz")       *)
(*   file path      : [parent |-> directory path, name |-> file name]      *)
(*   file content   : [isImage, exif, mtime]; exif is the sequence of      *)
(*                    (tag id, value) pairs in the order exif.items()      *)
(*                    yields them                                          *)
(*   tag value      : the string "YYYY:MM:DD HH:MM:SS" is the tuple of its *)
(*                    six numeric fields (they may be out of range, as in  *)
(*                    "0000:00:00 00:00:00"); any other value is << >>     *)
(*   datetime       : [Y, Mo, D, h, mi, s, us]                             *)
(***************************************************************************)
EXTENDS Integers, Sequences, FiniteSets, TLC

VARIABLES
    files,            \* file path -> content: the regular files on disk
    dirs,             \* the directories on disk
    readonly,         \* directories the process may not write to
    run,              \* number of invocations of the tool started so far
    dry_run,          \* PicSorter.dry_run of the current invocation
    pc,               \* position of the current invocation in process_folder
    image_files,      \* the list find_image_files returned
    idx,              \* index in image_files of the candidate being processed
    date_taken,       \* local date_taken of process_folder
    is_fallback,      \* local is_fallback of process_folder
    new_path,         \* local new_path of process_folder
    processed_count,  \* PicSorter.processed_count
    error_count,      \* PicSorter.error_count
    startFiles,       \* history: files when the current invocation started
    startDirs,        \* history: dirs when the current invocation started
    log,              \* history: one record per candidate handled so far
    prev              \* history: how the previous invocation ended

vars == <<files, dirs, readonly, run, dry_run, pc, image_files, idx,
          date_taken, is_fallback, new_path, processed_count, error_count,
          startFiles, startDirs, log, prev>>

\* Most files in the initial tree.
MaxFiles == 3

\* Most invocations of the tool in one behaviour.
MaxRuns == 2

None == [none |-> TRUE]

Root == << >>

----------------------------------------------------------------------------
(* Paths (pathlib.Path as the code uses it)                                *)

FileName(stem, ext) == [stem |-> stem, ext |-> ext]

FilePath(parent, name) == [parent |-> parent, name |-> name]

\* Path.name of a file path: stem and suffix joined.
FullName(p) == p.name.stem \o p.name.ext

\* The same path read as a directory path.
AsDir(p) == Append(p.parent, FullName(p))

\* A directory path read as a file path (a name without suffix).
AsFile(d) == FilePath(SubSeq(d, 1, Len(d) - 1), FileName(d[Len(d)], ""))

\* Path.exists(): a regular file or a directory is there.
Exists(fs_files, fs_dirs, p) == p \in DOMAIN fs_files \/ AsDir(p) \in fs_dirs

\* str.lower() on a suffix.
Lower(ext) ==
    CASE ext = ".JPG" -> ".jpg"
      [] ext = ".PNG" -> ".png"
      [] OTHER -> ext

SUPPORTED_EXTENSIONS ==
    {".jpg", ".jpeg", ".png", ".tiff", ".tif", ".bmp", ".gif", ".webp"}

----------------------------------------------------------------------------
(* Timestamps                                                              *)

IsLeap(y) == (y % 4 = 0 /\ y % 100 # 0) \/ y % 400 = 0

DaysInMonth(y, m) ==
    CASE m \in {4, 6, 9, 11} -> 30
      [] m = 2 -> IF IsLeap(y) THEN 29 ELSE 28
      [] OTHER -> 31

\* Whether datetime.strptime(value, '%Y:%m:%d %H:%M:%S') returns (otherwise
\* it raises ValueError).
Parses(value) ==
    /\ Len(value) = 6
    /\ value[1] \in 1..9999
    /\ value[2] \in 1..12
    /\ value[3] \in 1..DaysInMonth(value[1], value[2])
    /\ value[4] \in 0..23
    /\ value[5] \in 0..59
    /\ value[6] \in 0..59

\* datetime.strptime(value, '%Y:%m:%d %H:%M:%S') of a value that parses.
Strptime(value) ==
    [Y |-> value[1], Mo |-> value[2], D |-> value[3],
     h |-> value[4], mi |-> value[5], s |-> value[6], us |-> 0]

\* "%02d" % n
Pad2(n) == IF n < 10 THEN "0" \o ToString(n) ELSE ToString(n)

\* date_taken.strftime('%Y%m%d%H%M%S'): the microseconds are dropped.
Strftime(dt) ==
    ToString(dt.Y) \o Pad2(dt.Mo) \o Pad2(dt.D)
        \o Pad2(dt.h) \o Pad2(dt.mi) \o Pad2(dt.s)

\* PIL.ExifTags.TAGS.get(tag_id, tag_id) on the tag ids of the model.
TagName(tag_id) ==
    CASE tag_id = 306 -> "DateTime"
      [] tag_id = 36867 -> "DateTimeOriginal"
      [] tag_id = 36868 -> "DateTimeDigitized"
      [] tag_id = 274 -> "Orientation"
      [] OTHER -> ToString(tag_id)

DateTags == {"DateTime", "DateTimeOriginal", "DateTimeDigitized"}

----------------------------------------------------------------------------
(* PicSorter.find_image_files                                              *)

\* find_image_files comparing the suffix as written, without lower().
FindImageFilesCaseSensitive(fs_files, fs_dirs) ==
    {p \in DOMAIN fs_files :
        /\ p.parent \in fs_dirs
        /\ p.name.ext \in SUPPORTED_EXTENSIONS}

\* The files os.walk reaches from the root whose lowercased suffix is
\* supported.
FindImageFiles(fs_files, fs_dirs) ==
    {p \in DOMAIN fs_files :
        /\ p.parent \in fs_dirs
        /\ Lower(p.name.ext) \in SUPPORTED_EXTENSIONS}

\* The orders os.walk (top-down) can list a set of paths in: the files of a
\* directory come before the files of the directories below it, and the
\* files of one directory come in the order the file system lists them.
WalkOrders(S) ==
    {s \in [1..Cardinality(S) -> S] :
        /\ \A i, j \in 1..Cardinality(S) : i # j => s[i] # s[j]
        /\ \A i, j \in 1..Cardinality(S) :
              i < j => Len(s[i].parent) <= Len(s[j].parent)}

----------------------------------------------------------------------------
(* PicSorter.extract_date_taken                                            *)

\* The loop over exif.items(): the first date tag, in iteration order, whose
\* value parses; None when there is none.
RECURSIVE FirstDateTag(_, _)
FirstDateTag(exif, i) ==
    IF i > Len(exif) THEN None
    ELSE IF TagName(exif[i].tag) \in DateTags /\ Parses(exif[i].value)
         THEN Strptime(exif[i].value)
         ELSE FirstDateTag(exif, i + 1)

\* (date_taken, is_fallback) for the file at image_path.
ExtractDateTaken(fs_files, image_path) ==
    IF image_path \notin DOMAIN fs_files \/ ~fs_files[image_path].isImage
    THEN [date |-> None, fb |-> FALSE]
    ELSE LET found == FirstDateTag(fs_files[image_path].exif, 1)
         IN  IF found # None
             THEN [date |-> found, fb |-> FALSE]
             ELSE [date |-> fs_files[image_path].mtime, fb |-> TRUE]

----------------------------------------------------------------------------
(* PicSorter.generate_new_filename                                         *)

\* Whether no_exif_dir.mkdir(exist_ok=True) raises.
MkdirRaises(fs_files, fs_dirs, ro, d) ==
    /\ d \notin fs_dirs
    /\ \/ AsFile(d) \in DOMAIN fs_files
       \/ SubSeq(d, 1, Len(d) - 1) \notin fs_dirs
       \/ SubSeq(d, 1, Len(d) - 1) \in ro

\* generate_new_filename with one no-exif directory under the root for all
\* files, instead of one beside each file.
TargetDirUnderRoot(original_path, fallback) ==
    IF fallback THEN <<"no-exif">> ELSE original_path.parent

\* The directory generate_new_filename puts the file in.
TargetDir(original_path, fallback) ==
    IF fallback THEN Append(original_path.parent, "no-exif")
    ELSE original_path.parent

\* The name with counter c; c = 0 is the name without a counter.
CounterName(date_str, c, extension) ==
    IF c = 0 THEN FileName(date_str, extension)
    ELSE FileName(date_str \o "_" \o Pad2(c), extension)

\* The loop with the counter incremented before the name is formatted: the
\* first counter tried is 02.
RECURSIVE ConflictLoopIncrFirst(_, _, _, _, _, _, _, _)
ConflictLoopIncrFirst(fs_files, fs_dirs, target_dir, date_str, extension, original_path, path, counter) ==
    IF Exists(fs_files, fs_dirs, path) /\ path # original_path
    THEN ConflictLoopIncrFirst(fs_files, fs_dirs, target_dir, date_str,
                               extension, original_path,
                               FilePath(target_dir,
                                        CounterName(date_str, counter + 1,
                                                    extension)),
                               counter + 1)
    ELSE path

\* The loop written as an `if`: the name with _01 is taken unchecked.
ConflictLoopOnce(fs_files, fs_dirs, target_dir, date_str, extension, original_path, path, counter) ==
    IF Exists(fs_files, fs_dirs, path) /\ path # original_path
    THEN FilePath(target_dir, CounterName(date_str, counter, extension))
    ELSE path

\* The while loop of generate_new_filename.
RECURSIVE ConflictLoop(_, _, _, _, _, _, _, _)
ConflictLoop(fs_files, fs_dirs, target_dir, date_str, extension, original_path, path, counter) ==
    IF Exists(fs_files, fs_dirs, path) /\ path # original_path
    THEN ConflictLoop(fs_files, fs_dirs, target_dir, date_str, extension,
                      original_path,
                      FilePath(target_dir,
                               CounterName(date_str, counter, extension)),
                      counter + 1)
    ELSE path

\* generate_new_filename: whether it raises, the path it returns and the
\* directories on disk when it is done.
GenerateNewFilename(fs_files, fs_dirs, ro, original_path, date, fallback) ==
    LET date_str   == Strftime(date)
        extension  == Lower(original_path.name.ext)
        target_dir == TargetDir(original_path, fallback)
        dirs1      == IF fallback THEN fs_dirs \cup {target_dir} ELSE fs_dirs
    IN  IF fallback /\ MkdirRaises(fs_files, fs_dirs, ro, target_dir)
        THEN [raised |-> TRUE, path |-> None, dirs |-> fs_dirs]
        ELSE [raised |-> FALSE,
              path |-> ConflictLoop(fs_files, dirs1, target_dir, date_str,
                           extension, original_path,
                           FilePath(target_dir,
                                    CounterName(date_str, 0, extension)),
                           1),
              dirs |-> dirs1]

----------------------------------------------------------------------------
(* PicSorter.rename_file                                                   *)

\* Whether original_path.rename(new_path) raises.
RenameRaises(fs_files, fs_dirs, ro, original_path, path) ==
    \/ original_path \notin DOMAIN fs_files
    \/ path.parent \notin fs_dirs
    \/ AsDir(path) \in fs_dirs
    \/ original_path.parent \in ro
    \/ path.parent \in ro

\* rename_file: its return value and the files on disk when it is done.
\* os.rename replaces a regular file that is already at the destination.
RenameFile(fs_files, fs_dirs, ro, dry, original_path, path) ==
    IF original_path = path THEN [ok |-> TRUE, files |-> fs_files]
    ELSE IF dry THEN [ok |-> TRUE, files |-> fs_files]
    ELSE IF RenameRaises(fs_files, fs_dirs, ro, original_path, path)
    THEN [ok |-> FALSE, files |-> fs_files]
    ELSE [ok |-> TRUE,
          files |-> [q \in (DOMAIN fs_files \ {original_path}) \cup {path} |->
                        IF q = path THEN fs_files[original_path]
                        ELSE fs_files[q]]]

----------------------------------------------------------------------------
(* Initial trees                                                           *)

Image(exif, mtime) == [isImage |-> TRUE, exif |-> exif, mtime |-> mtime]

NotImage(mtime) == [isImage |-> FALSE, exif |-> << >>, mtime |-> mtime]

Tag(id, value) == [tag |-> id, value |-> value]

\* "2023:05:17 14:30:00"
T1 == <<2023, 5, 17, 14, 30, 0>>

\* "2024:02:29 09:05:07"
T3 == <<2024, 2, 29, 9, 5, 7>>

\* "2023:02:29 00:00:00": no such day
BadDay == <<2023, 2, 29, 0, 0, 0>>

\* "0000:00:00 00:00:00", as cameras with an unset clock write it
Zero == <<0, 0, 0, 0, 0, 0>>

\* a string that is not of the form "YYYY:MM:DD HH:MM:SS"
NotATime == << >>

\* 2022-01-01 00:00:00 and half a second later
M1 == [Y |-> 2022, Mo |-> 1, D |-> 1, h |-> 0, mi |-> 0, s |-> 0, us |-> 0]

M2 == [Y |-> 2022, Mo |-> 1, D |-> 1, h |-> 0, mi |-> 0, s |-> 0, us |-> 500000]

Entry(parent, stem, ext, content) ==
    [path |-> FilePath(parent, FileName(stem, ext)), content |-> content]

\* The files an initial tree is made of.
Catalogue ==
    { Entry(Root, "photo", ".jpg", Image(<<Tag(36867, T1)>>, M1)),
      Entry(Root, "IMG_2", ".JPG",
            Image(<<Tag(306, T3), Tag(36867, T1)>>, M1)),
      Entry(Root, "pic", ".jpg",
            Image(<<Tag(274, <<1>>), Tag(36867, BadDay), Tag(36868, T1)>>, M2)),
      Entry(Root, "scan", ".png", Image(<< >>, M1)),
      Entry(Root, "scan2", ".PNG", Image(<<Tag(306, Zero)>>, M2)),
      Entry(Root, "scan3", ".png", Image(<<Tag(36867, NotATime)>>, M1)),
      Entry(Root, "notes", ".jpg", NotImage(M1)),
      Entry(Root, "clip", ".heic", Image(<<Tag(36867, T1)>>, M1)),
      Entry(Root, "20230517143000_01", ".jpg", Image(<<Tag(306, T1)>>, M2)),
      Entry(Root, "20230517143000", ".jpg", NotImage(M2)),
      Entry(Root, "no-exif", "", NotImage(M1)),
      Entry(<<"no-exif">>, "old", ".png", Image(<< >>, M1)) }

\* The directories a set of catalogue entries lies in.
DirsOf(S) == {Root} \cup {e.path.parent : e \in S}

\* A tree: at most MaxFiles entries, no path both a file and a directory.
Trees ==
    {S \in SUBSET Catalogue :
        /\ Cardinality(S) <= MaxFiles
        /\ \A e \in S : AsDir(e.path) \notin DirsOf(S)}

FilesOf(S) ==
    [p \in {e.path : e \in S} |-> (CHOOSE e \in S : e.path = p).content]

Init ==
    /\ \E S \in Trees :
          /\ files = FilesOf(S)
          /\ \/ dirs = DirsOf(S)
             \/ S = {} /\ dirs = {}
          /\ readonly \in SUBSET dirs
    /\ run = 0
    /\ dry_run = FALSE
    /\ pc = "idle"
    /\ image_files = << >>
    /\ idx = 0
    /\ date_taken = None
    /\ is_fallback = FALSE
    /\ new_path = None
    /\ processed_count = 0
    /\ error_count = 0
    /\ startFiles = files
    /\ startDirs = dirs
    /\ log = << >>
    /\ prev = "none"

----------------------------------------------------------------------------
(* process_folder                                                          *)

Terminated == pc \in {"idle", "exit1", "noimages", "summary", "aborted"}

\* How the invocation that stands at a terminated pc ended.
Outcome ==
    CASE pc = "idle" -> "none"
      [] pc \in {"exit1", "aborted"} -> "failed"
      [] OTHER -> IF dry_run THEN "dry" ELSE "real"

\* A new invocation: PicSorter.__init__ and the head of process_folder.
Begin(dry) ==
    /\ Terminated
    /\ run < MaxRuns
    /\ run' = run + 1
    /\ dry_run' = dry
    /\ processed_count' = 0
    /\ error_count' = 0
    /\ prev' = Outcome
    /\ startFiles' = files
    /\ startDirs' = dirs
    /\ log' = << >>
    /\ date_taken' = None
    /\ is_fallback' = FALSE
    /\ new_path' = None
    /\ UNCHANGED <<files, dirs, readonly>>

\* The folder does not exist or is not a directory: sys.exit(1).
RejectRoot ==
    /\ \E dry \in BOOLEAN : Begin(dry)
    /\ Root \notin dirs
    /\ pc' = "exit1"
    /\ image_files' = << >>
    /\ idx' = 0

\* find_image_files returns nothing: "No image files found", return.
NoImages ==
    /\ \E dry \in BOOLEAN : Begin(dry)
    /\ Root \in dirs
    /\ FindImageFiles(files, dirs) = {}
    /\ pc' = "noimages"
    /\ image_files' = << >>
    /\ idx' = 0

\* find_image_files returns the candidates, the loop starts.
StartRun ==
    /\ \E dry \in BOOLEAN : Begin(dry)
    /\ Root \in dirs
    /\ FindImageFiles(files, dirs) # {}
    /\ image_files' \in WalkOrders(FindImageFiles(files, dirs))
    /\ idx' = 1
    /\ pc' = "extract"

\* The end of one iteration of the loop: the next candidate, or the summary.
NextCandidate ==
    /\ idx' = idx + 1
    /\ pc' = IF idx < Len(image_files) THEN "extract" ELSE "summary"

LogEntry(orig, dest, dstr, fb, ok) ==
    [orig |-> orig, dest |-> dest, date_str |-> dstr, fallback |-> fb, ok |-> ok]

\* extract_date_taken returns None: the candidate is skipped and counted.
ExtractFails ==
    /\ pc = "extract"
    /\ ExtractDateTaken(files, image_files[idx]).date = None
    /\ error_count' = error_count + 1
    /\ log' = Append(log, LogEntry(image_files[idx], None, "", FALSE, FALSE))
    /\ NextCandidate
    /\ UNCHANGED <<files, dirs, readonly, run, dry_run, image_files,
                   date_taken, is_fallback, new_path, processed_count,
                   startFiles, startDirs, prev>>

\* extract_date_taken returns a date.
ExtractStep ==
    /\ pc = "extract"
    /\ LET r == ExtractDateTaken(files, image_files[idx])
       IN  /\ r.date # None
           /\ date_taken' = r.date
           /\ is_fallback' = r.fb
    /\ pc' = "generate"
    /\ UNCHANGED <<files, dirs, readonly, run, dry_run, image_files, idx,
                   new_path, processed_count, error_count,
                   startFiles, startDirs, log, prev>>

\* generate_new_filename raises: nothing in process_folder catches it.
GenerateRaises ==
    /\ pc = "generate"
    /\ GenerateNewFilename(files, dirs, readonly, image_files[idx],
                           date_taken, is_fallback).raised
    /\ pc' = "aborted"
    /\ UNCHANGED <<files, dirs, readonly, run, dry_run, image_files, idx,
                   date_taken, is_fallback, new_path, processed_count,
                   error_count, startFiles, startDirs, log, prev>>

\* generate_new_filename returns the destination.
GenerateStep ==
    /\ pc = "generate"
    /\ LET r == GenerateNewFilename(files, dirs, readonly, image_files[idx],
                                    date_taken, is_fallback)
       IN  /\ ~r.raised
           /\ new_path' = r.path
           /\ dirs' = r.dirs
    /\ pc' = "rename"
    /\ UNCHANGED <<files, readonly, run, dry_run, image_files, idx,
                   date_taken, is_fallback, processed_count, error_count,
                   startFiles, startDirs, log, prev>>

\* rename_file and the tally.
RenameStep ==
    /\ pc = "rename"
    /\ LET r == RenameFile(files, dirs, readonly, dry_run,
                           image_files[idx], new_path)
       IN  /\ files' = r.files
           /\ processed_count' = IF r.ok THEN processed_count + 1
                                 ELSE processed_count
           /\ error_count' = IF r.ok THEN error_count ELSE error_count + 1
           /\ log' = Append(log, LogEntry(image_files[idx], new_path,
                                          Strftime(date_taken), is_fallback,
                                          r.ok))
    /\ NextCandidate
    /\ UNCHANGED <<dirs, readonly, run, dry_run, image_files, date_taken,
                   is_fallback, new_path, startFiles, startDirs, prev>>

\* The real (non-dry-run) loop of process_folder over the list `order`, from
\* the given tree: the (original, destination) pairs it hands to os.rename.
RECURSIVE RealRun(_, _, _, _, _, _)
RealRun(fs_files, fs_dirs, ro, order, i, acc) ==
    IF i > Len(order) THEN acc
    ELSE LET e == ExtractDateTaken(fs_files, order[i])
         IN  IF e.date = None
             THEN RealRun(fs_files, fs_dirs, ro, order, i + 1, acc)
             ELSE LET g == GenerateNewFilename(fs_files, fs_dirs, ro,
                                               order[i], e.date, e.fb)
                  IN  IF g.raised THEN acc
                      ELSE RealRun(
                               RenameFile(fs_files, g.dirs, ro, FALSE,
                                          order[i], g.path).files,
                               g.dirs, ro, order, i + 1,
                               IF g.path = order[i] THEN acc
                               ELSE Append(acc, <<order[i], g.path>>))

Next ==
    \/ RejectRoot
    \/ NoImages
    \/ StartRun
    \/ ExtractFails
    \/ ExtractStep
    \/ GenerateRaises
    \/ GenerateStep
    \/ RenameStep

Spec == Init /\ [][Next]_vars

----------------------------------------------------------------------------
(* Properties                                                              *)

\* A run of the tool is under way or has ended (the invocation counts).
InRun == run >= 1 /\ pc \notin {"idle", "exit1"}

\* The candidate the loop is at.
Current == image_files[idx]

\* The destination of candidate `orig` with counter c.
Candidate(orig, fb, dstr, c) ==
    FilePath(IF fb THEN Append(orig.parent, "no-exif") ELSE orig.parent,
             CounterName(dstr, c, Lower(orig.name.ext)))

\* Counters that can come up: one per file on disk, and one more.
Counters == 0..(Cardinality(DOMAIN startFiles) + 1)

\* Two log entries whose derived base filenames coincide in one directory.
SameGroup(a, b) ==
    /\ a.dest # None
    /\ b.dest # None
    /\ Candidate(a.orig, a.fallback, a.date_str, 0)
           = Candidate(b.orig, b.fallback, b.date_str, 0)

\* The rank of log entry j among the entries of its group.
Rank(j) == Cardinality({i \in 1..j : SameGroup(log[i], log[j])})

\* C1 (as claimed): a real run that follows a completed real run renames
\* nothing and creates no directory: the tree stays as it was when the second
\* run started, and every destination derived is the candidate's own path.
C1_SecondRunIsNoOp ==
    (run >= 2 /\ prev = "real" /\ ~dry_run /\ InRun) =>
        /\ files = startFiles
        /\ dirs = startDirs
        /\ \A i \in DOMAIN log :
              log[i].dest # None => log[i].dest = log[i].orig

\* C2 (as claimed): a dry run ends, and stands at every step, with the files
\* and directories it started with.
C2_DryRunLeavesTreeUnchanged ==
    (InRun /\ dry_run) => (files = startFiles /\ dirs = startDirs)

\* The (original, destination) pairs a run reported as "Would rename" (dry
\* run) or handed to os.rename (real run).
RECURSIVE Reported(_, _)
Reported(l, i) ==
    IF i > Len(l) THEN << >>
    ELSE IF l[i].dest # None /\ l[i].dest # l[i].orig
         THEN <<(<<l[i].orig, l[i].dest>>)>> \o Reported(l, i + 1)
         ELSE Reported(l, i + 1)

\* C3 (as claimed): the pairs a completed dry run reported are the renames a
\* real run makes from the same tree with the same candidate order.
C3_DryRunReportsRealRenames ==
    (dry_run /\ pc = "summary") =>
        Reported(log, 1)
            = RealRun(startFiles, startDirs, readonly, image_files, 1, << >>)

\* C4 (as claimed): in a real run whose renames succeed, when the derived
\* name <ts><ext> was not on disk beforehand, the k-th candidate of a group
\* of colliding candidates is given counter k-1.
C4_KthGetsCounterKMinus1 ==
    (InRun /\ ~dry_run) =>
        \A j \in DOMAIN log :
            ( /\ log[j].dest # None
              /\ \A i \in 1..j : SameGroup(log[i], log[j]) => log[i].ok
              /\ ~Exists(startFiles, startDirs,
                         Candidate(log[j].orig, log[j].fallback,
                                   log[j].date_str, 0)) )
            => log[j].dest = Candidate(log[j].orig, log[j].fallback,
                                       log[j].date_str, Rank(j) - 1)

\* No name of the group of log entry e, with or without counter, is on disk
\* when the run starts.
GroupNamesFree(e) ==
    \A c \in Counters :
        ~Exists(startFiles, startDirs,
                Candidate(e.orig, e.fallback, e.date_str, c))

\* C4 (amended): the destination derived for a candidate is the name with the
\* smallest counter (none, 01, 02, ...) that is not on disk at that moment or
\* is the candidate's own path; and in a real run whose renames succeed,
\* when no name <ts><ext> or <ts>_NN<ext> was on disk beforehand, the k-th
\* candidate of a group of colliding candidates is given counter k-1.
C4_SmallestFreeCounter ==
    /\ pc = "rename" =>
          \E c \in Counters :
              /\ new_path = Candidate(Current, is_fallback,
                                      Strftime(date_taken), c)
              /\ ~Exists(files, dirs, new_path) \/ new_path = Current
              /\ \A b \in 0..(c - 1) :
                    LET p == Candidate(Current, is_fallback,
                                       Strftime(date_taken), b)
                    IN  Exists(files, dirs, p) /\ p # Current
    /\ (InRun /\ ~dry_run) =>
          \A j \in DOMAIN log :
              ( /\ log[j].dest # None
                /\ \A i \in 1..j : SameGroup(log[i], log[j]) => log[i].ok
                /\ GroupNamesFree(log[j]) )
              => log[j].dest = Candidate(log[j].orig, log[j].fallback,
                                         log[j].date_str, Rank(j) - 1)

\* C4 witness: a real run has renamed three colliding candidates, to the name
\* without counter, with _01 and with _02.
C4_Witness ==
    /\ InRun
    /\ ~dry_run
    /\ Len(log) >= 3
    /\ \A j \in 1..3 :
          /\ log[j].dest # None
          /\ log[j].ok
          /\ log[j].dest # log[j].orig
          /\ SameGroup(log[1], log[j])
          /\ GroupNamesFree(log[j])
          /\ log[j].dest.name.stem =
                 IF j = 1 THEN log[1].date_str
                 ELSE log[1].date_str \o "_0" \o ToString(j - 1)

\* C5 (as claimed), on a tree the process may write to: no two candidates of
\* one run (dry or real) are given the same destination.
C5_DistinctDestinations ==
    (InRun /\ readonly = {}) =>
        \A i, j \in DOMAIN log :
            (i < j /\ log[i].dest # None /\ log[j].dest # None)
                => log[i].dest # log[j].dest

\* C6 (as claimed): a failure in a per-file step is counted and never aborts
\* the run: the run is never aborted, error_count is the number of candidates
\* that failed, and at the summary every candidate has been handled.
C6_PerFileFailureIsolation ==
    InRun =>
        /\ pc # "aborted"
        /\ error_count = Cardinality({i \in DOMAIN log : ~log[i].ok})
        /\ pc = "summary" => Len(log) = Len(image_files)

\* The values of the tags called `name` in exif that parse.
ParsedTag(exif, name) ==
    {Strptime(exif[i].value) : i \in
        {k \in DOMAIN exif :
            TagName(exif[k].tag) = name /\ Parses(exif[k].value)}}

\* The date the priority order capture time, digitized time, generic gives.
ByPriority(exif) ==
    IF ParsedTag(exif, "DateTimeOriginal") # {}
    THEN ParsedTag(exif, "DateTimeOriginal")
    ELSE IF ParsedTag(exif, "DateTimeDigitized") # {}
         THEN ParsedTag(exif, "DateTimeDigitized")
         ELSE ParsedTag(exif, "DateTime")

\* C7 (as claimed): the timestamp extract_date_taken returns from the tags is
\* that of the highest-priority tag that parses, whatever order the tags are
\* stored in.
C7_TagPriority ==
    (pc = "generate" /\ ~is_fallback) =>
        date_taken \in ByPriority(files[Current].exif)

\* Some recognized tag of the content parses.
SomeTagParses(content) ==
    \E i \in DOMAIN content.exif :
        /\ TagName(content.exif[i].tag) \in DateTags
        /\ Parses(content.exif[i].value)

C9_OnlyImagesAreCandidates ==
    InRun =>
        \A i \in DOMAIN image_files :
            /\ startFiles[image_files[i]].isImage
            /\ Lower(image_files[i].name.ext) \in
                   {".jpg", ".jpeg", ".png", ".tiff", ".tif", ".bmp", ".gif",
                    ".webp"}

\* C9 (amended): a file under the root is in the candidate list if and only
\* if its lowercased extension is in the allowlist, whether or not it is an
\* image; the list holds each such file once.
C9_CandidatesByExtension ==
    InRun =>
        /\ \A p \in DOMAIN startFiles :
              (\E i \in DOMAIN image_files : image_files[i] = p)
                  <=> Lower(p.name.ext) \in
                          {".jpg", ".jpeg", ".png", ".tiff", ".tif", ".bmp",
                           ".gif", ".webp"}
        /\ \A i \in DOMAIN image_files : image_files[i] \in DOMAIN startFiles
        /\ \A i, j \in DOMAIN image_files :
              image_files[i] = image_files[j] => i = j

\* C9 witness: the list holds a file that is not an image and one with an
\* upper-case extension, and leaves out an image with another extension.
C9_Witness ==
    /\ InRun
    /\ \E i \in DOMAIN image_files : ~startFiles[image_files[i]].isImage
    /\ \E i \in DOMAIN image_files :
          image_files[i].name.ext # Lower(image_files[i].name.ext)
    /\ \E p \in DOMAIN startFiles :
          /\ startFiles[p].isImage
          /\ \A i \in DOMAIN image_files : image_files[i] # p

\* The contents on disk, with how many files hold each.
Contents(fs_files) ==
    [c \in {fs_files[p] : p \in DOMAIN fs_files} |->
        Cardinality({p \in DOMAIN fs_files : fs_files[p] = c})]

\* C10: in a real run, the path handed to os.rename is the original path or
\* a path nothing is at, the tree holds the files (by content) it held when
\* the run started, and every candidate not yet handled is still at its path.
C10_NoFileLost ==
    (InRun /\ ~dry_run) =>
        /\ (pc = "rename" /\ new_path # Current) =>
               ~Exists(files, dirs, new_path)
        /\ Cardinality(DOMAIN files) = Cardinality(DOMAIN startFiles)
        /\ Contents(files) = Contents(startFiles)
        /\ \A j \in (Len(log) + 1)..Len(image_files) :
              /\ image_files[j] \in DOMAIN files
              /\ files[image_files[j]] = startFiles[image_files[j]]

\* C10 witness: a real run renamed a candidate to a name with a counter
\* because the name without it was taken, with candidates still to come.
C10_Witness ==
    /\ InRun
    /\ ~dry_run
    /\ Len(log) < Len(image_files)
    /\ \E i \in DOMAIN log :
          /\ log[i].dest # None
          /\ log[i].ok
          /\ log[i].dest # log[i].orig
          /\ log[i].dest.name.stem # log[i].date_str
          /\ log[i].dest \in DOMAIN files

====
